---------------------------- MODULE Spec2Model ----------------------------
(***************************************************************************)
(* A model of the snappy_framed crate: the masked CRC-32C, the Buffer, the *)
(* framed encoder (write.rs) and the framed decoder (read.rs).             *)
(*                                                                         *)
(* Bytes are the integers 0..255.  A u32 is kept as a pair <<hi, lo>> of   *)
(* 16-bit halves so that every intermediate value stays inside TLC's       *)
(* integers while the arithmetic keeps its 32-bit width.                   *)
(***************************************************************************)
EXTENDS Integers, Sequences, FiniteSets, TLC

(***************************************************************************)
(* Elementary helpers.                                                     *)
(***************************************************************************)
Min(a, b) == IF a <= b THEN a ELSE b

Take(s, n) == SubSeq(s, 1, Min(n, Len(s)))

Drop(s, n) == SubSeq(s, n + 1, Len(s))

Zeros(n) == [i \in 1..n |-> 0]

RECURSIVE Xor(_, _)
Xor(a, b) ==
    IF a = 0 THEN b
    ELSE IF b = 0 THEN a
    ELSE (((a % 2) + (b % 2)) % 2) + (2 * Xor(a \div 2, b \div 2))

U32(hi, lo) == <<hi, lo>>

Xor32(x, y) == U32(Xor(x[1], y[1]), Xor(x[2], y[2]))

Shr32(x, n) ==
    LET p == 2 ^ n
    IN  U32(x[1] \div p, (x[2] \div p) + ((x[1] % p) * (65536 \div p)))

(***************************************************************************)
(* crc::crc32::checksum_castagnoli: the reflected CRC-32C, polynomial      *)
(* 0x82F63B78, initial value and final xor 0xFFFFFFFF, table driven.       *)
(***************************************************************************)
CastagnoliPoly == U32(33526, 15224)

\* One bit of the table computation: shift right, xor the polynomial in
\* when a one fell out.
BitStep(c) ==
    IF c[2] % 2 = 1 THEN Xor32(Shr32(c, 1), CastagnoliPoly) ELSE Shr32(c, 1)

RECURSIVE CrcBits(_, _)
CrcBits(i, n) == IF n = 0 THEN U32(0, i) ELSE BitStep(CrcBits(i, n - 1))

CastagnoliTable == [i \in 0..255 |-> CrcBits(i, 8)]

\* One byte of input: table[(crc ^ byte) & 0xFF] ^ (crc >> 8).
ByteStep(c, byte) == Xor32(CastagnoliTable[Xor(c[2] % 256, byte)], Shr32(c, 8))

RECURSIVE CrcUpdate(_, _)
CrcUpdate(bytes, n) ==
    IF n = 0 THEN U32(65535, 65535)
    ELSE ByteStep(CrcUpdate(bytes, n - 1), bytes[n])

checksum_castagnoli(bytes) ==
    Xor32(CrcUpdate(bytes, Len(bytes)), U32(65535, 65535))

(***************************************************************************)
(* masked_crc.rs                                                           *)
(***************************************************************************)
\* u32::rotate_right(15): the halves swap (a rotation by 16) and the word
\* then rotates left by one.
rotate_right_15(x) ==
    U32(((x[2] * 2) % 65536) + (x[1] \div 32768),
        ((x[1] * 2) % 65536) + (x[2] \div 32768))

\* Mutant: the carry out of bit 31 stays in the high half.
add_keeping_carry(x, y) ==
    LET lo == x[2] + y[2]
    IN  U32(x[1] + y[1] + (lo \div 65536), lo % 65536)

\* u32::wrapping_add: the carry out of bit 31 is dropped.
wrapping_add(x, y) ==
    LET lo == x[2] + y[2]
    IN  U32((x[1] + y[1] + (lo \div 65536)) % 65536, lo % 65536)

MaskDelta == U32(41602, 60120)

mask(crc) == wrapping_add(rotate_right_15(crc), MaskDelta)

masked_crc(bytes) == mask(checksum_castagnoli(bytes))


(***************************************************************************)
(* The external block compressor.  snappy::compress of a block shorter     *)
(* than 15 bytes is the varint length followed by one literal element      *)
(* (tag (len-1)<<2, then the bytes); the empty block is the single byte 0. *)
(* Every block of this model is that short.                                *)
(***************************************************************************)
compress(data) ==
    IF Len(data) = 0 THEN <<0>>
    ELSE <<Len(data), (Len(data) - 1) * 4>> \o data

Fail == [ok |-> FALSE, data |-> <<>>]

Done(data) == [ok |-> TRUE, data |-> data]

\* The varint preamble: the uncompressed length and the index of the first
\* element.  Inputs here are shorter than 256 bytes, so no accepted stream
\* declares 2^14 bytes or more: a third length byte is only ever padding.
Preamble(c) ==
    IF Len(c) >= 1 /\ c[1] < 128 THEN [ok |-> TRUE, n |-> c[1], next |-> 2]
    ELSE IF Len(c) >= 2 /\ c[2] < 128
         THEN [ok |-> TRUE, n |-> (c[1] % 128) + (128 * c[2]), next |-> 3]
    ELSE [ok |-> FALSE, n |-> 0, next |-> 0]

RECURSIVE CopyBack(_, _, _)
CopyBack(out, off, len) ==
    IF len = 0 THEN out
    ELSE CopyBack(Append(out, out[Len(out) - off + 1]), off, len - 1)

\* One element of the compressed block: its kind, the number of bytes it
\* produces, where its literal bytes start (kind 0) or how far back it
\* copies from (kinds 1..3), and where the next element starts.
Element(c, pos) ==
    LET tag  == c[pos]
        kind == tag % 4
        hi   == tag \div 4
        avail == Len(c) - pos
    IN  CASE kind = 0 /\ hi < 60 ->
               [ok |-> TRUE, lit |-> TRUE, len |-> hi + 1, arg |-> pos + 1,
                next |-> pos + 1 + hi + 1]
          [] kind = 0 /\ hi >= 60 ->
               LET nb == hi - 59
               IN  IF avail < nb \/ (\E j \in 3..nb : c[pos + j] # 0)
                   THEN [ok |-> FALSE, lit |-> TRUE, len |-> 0, arg |-> 0, next |-> 0]
                   ELSE LET len == c[pos + 1] + (IF nb >= 2 THEN 256 * c[pos + 2] ELSE 0) + 1
                        IN  [ok |-> TRUE, lit |-> TRUE, len |-> len,
                             arg |-> pos + 1 + nb, next |-> pos + 1 + nb + len]
          [] kind = 1 ->
               IF avail < 1
               THEN [ok |-> FALSE, lit |-> FALSE, len |-> 0, arg |-> 0, next |-> 0]
               ELSE [ok |-> TRUE, lit |-> FALSE, len |-> 4 + (hi % 8),
                     arg |-> ((tag \div 32) * 256) + c[pos + 1], next |-> pos + 2]
          [] kind = 2 ->
               IF avail < 2
               THEN [ok |-> FALSE, lit |-> FALSE, len |-> 0, arg |-> 0, next |-> 0]
               ELSE [ok |-> TRUE, lit |-> FALSE, len |-> hi + 1,
                     arg |-> c[pos + 1] + (256 * c[pos + 2]), next |-> pos + 3]
          [] OTHER ->
               IF avail < 4 \/ c[pos + 3] # 0 \/ c[pos + 4] # 0
               THEN [ok |-> FALSE, lit |-> FALSE, len |-> 0, arg |-> 0, next |-> 0]
               ELSE [ok |-> TRUE, lit |-> FALSE, len |-> hi + 1,
                     arg |-> c[pos + 1] + (256 * c[pos + 2]), next |-> pos + 5]

RECURSIVE Elements(_, _, _, _)
\* The element e, read at the head of what is left of c, applied to `out`.
Apply(c, out, n, e) ==
    IF ~e.ok \/ Len(out) + e.len > n THEN Fail
    ELSE IF e.lit
         THEN IF e.next - 1 > Len(c) THEN Fail
              ELSE Elements(c, e.next, out \o SubSeq(c, e.arg, e.next - 1), n)
         ELSE IF e.arg = 0 \/ e.arg > Len(out) THEN Fail
              ELSE Elements(c, e.next, CopyBack(out, e.arg, e.len), n)

Elements(c, pos, out, n) ==
    IF pos > Len(c) THEN (IF Len(out) = n THEN Done(out) ELSE Fail)
    ELSE Apply(c, out, n, Element(c, pos))

\* The external block decompressor: the block, or a rejection.
AfterPreamble(c, p) == IF p.ok THEN Elements(c, p.next, <<>>, p.n) ELSE Fail

uncompress(c) == AfterPreamble(c, Preamble(c))

(***************************************************************************)
(* consts.rs.  MAX_UNCOMPRESSED_CHUNK is 65 536 in the source; the model   *)
(* scales it down so that blocks below, at and above it can be explored.   *)
(***************************************************************************)
HEADER_SIZE == 4

CRC_SIZE == 4

MAX_UNCOMPRESSED_CHUNK == 2

(***************************************************************************)
(* buffer.rs: a byte vector with the cursors begin and end (0-based, as in *)
(* the source).  `len` is the length of the vector (its capacity) and      *)
(* `buffer` holds its bytes before `end`; the bytes from `end` on are      *)
(* never read before a fill or set_data has overwritten them, so they are  *)
(* not kept.                                                               *)
(***************************************************************************)
BufferNew(sz) == [buffer |-> <<>>, len |-> sz, begin |-> 0, end |-> 0]

capacity(b) == b.len

buffered(b) == b.end - b.begin

empty(b) == buffered(b) = 0

move_data_to_start(b) ==
    IF b.begin > 0
    THEN [b EXCEPT !.buffer = SubSeq(b.buffer, b.begin + 1, b.end),
                   !.end = buffered(b),
                   !.begin = 0]
    ELSE b

\* The length of the slice &mut buffer[end..].
space_to_fill(b) == capacity(b) - b.end

\* A source wrote `bytes` into the slice space_to_fill returned.
Filled(b, bytes) == [b EXCEPT !.buffer = Take(b.buffer, b.end) \o bytes]

added(b, bytes) == [b EXCEPT !.end = b.end + bytes]

\* assert!(data.len() <= self.buffer.len())
set_data_fits(b, data) == Len(data) <= capacity(b)

set_data(b, data) == [b EXCEPT !.buffer = data, !.begin = 0, !.end = Len(data)]

\* The slice consume returns, &buffer[begin..begin+bytes].
consumed(b, bytes) == SubSeq(b.buffer, b.begin + 1, b.begin + bytes)

consume(b, bytes) == [b EXCEPT !.begin = b.begin + bytes]

copy_out_and_consume(b, bytes) == [b EXCEPT !.begin = b.begin + bytes]

add_capacity(b, bytes) == [b EXCEPT !.len = b.len + bytes]

(***************************************************************************)
(* The byte source a decoder wraps: an in-memory stream read from `pos`    *)
(* (std::io::Cursor in the tests, which never fails).  A read hands over   *)
(* at most `space` bytes; a dribbling reader (dribble::DribbleReader)      *)
(* hands over fewer.  `sched` is the cycle of piece sizes the reader       *)
(* follows, <<>> for a reader that hands over all it has.                  *)
(***************************************************************************)
SourceNew(data) == [data |-> data, pos |-> 0]

Remaining(source) == Len(source.data) - source.pos

Piece(source, sched) ==
    IF sched = <<>> THEN Remaining(source)
    ELSE sched[(source.pos % Len(sched)) + 1]

\* source.read(space): the number of bytes handed over.
SourceRead(source, space, sched) ==
    Min(Min(space, Remaining(source)), Piece(source, sched))

(***************************************************************************)
(* read.rs, impl Buffer: ensure_buffered and next_chunk.                   *)
(***************************************************************************)
\* The loop of ensure_buffered: read into the free tail until it is full or
\* the source hands over nothing.
RECURSIVE Fill(_, _, _)
FillWith(input, source, sched, bytes_read) ==
    IF bytes_read = 0 THEN [input |-> added(input, 0), source |-> source]
    ELSE Fill(added(Filled(input, SubSeq(source.data, source.pos + 1,
                                         source.pos + bytes_read)),
                    bytes_read),
              [source EXCEPT !.pos = source.pos + bytes_read],
              sched)

\* Mutant: a single read of the source instead of the loop.
FillOnce(input, source, sched) ==
    [input |-> added(Filled(input, SubSeq(source.data, source.pos + 1,
                        source.pos + SourceRead(source, space_to_fill(input), sched))),
                     SourceRead(source, space_to_fill(input), sched)),
     source |-> [source EXCEPT !.pos =
                    source.pos + SourceRead(source, space_to_fill(input), sched)]]

Fill(input, source, sched) ==
    IF space_to_fill(input) = 0 THEN [input |-> input, source |-> source]
    ELSE FillWith(input, source, sched,
                  SourceRead(source, space_to_fill(input), sched))

\* Mutant: the buffer grows by the length asked for.
GrowByBytes(input, bytes) ==
    IF bytes > capacity(input) THEN add_capacity(input, bytes) ELSE input

\* Mutant: the buffer is never resized.
NeverGrow(input, bytes) == input

\* "If our input buffer is too small to hold a chunk, resize it."
Grow(input, bytes) ==
    IF bytes > capacity(input) THEN add_capacity(input, bytes - capacity(input))
    ELSE input

\* "Actually return our bytes."
Some(input, source, bytes) ==
    [res |-> "Some", data |-> consumed(input, bytes),
     input |-> consume(input, bytes), source |-> source]

\* Mutant: too few bytes is an error even when there are none at all.
DecideErrFirst(f, bytes) ==
    IF buffered(f.input) < bytes
    THEN [res |-> "Err", data |-> <<>>, input |-> f.input, source |-> f.source]
    ELSE Some(f.input, f.source, bytes)

\* "Decide what to do if we still don't have enough data."
Decide(f, bytes) ==
    IF buffered(f.input) = 0
    THEN [res |-> "None", data |-> <<>>, input |-> f.input, source |-> f.source]
    ELSE IF buffered(f.input) < bytes
    THEN [res |-> "Err", data |-> <<>>, input |-> f.input, source |-> f.source]
    ELSE Some(f.input, f.source, bytes)

\* Mutant: the decision is taken whether or not the buffer was filled.
ensure_buffered_always_decides(input, source, bytes, sched) ==
    IF buffered(input) < bytes
    THEN Decide(Fill(move_data_to_start(Grow(input, bytes)), source, sched), bytes)
    ELSE Decide([input |-> input, source |-> source], bytes)

ensure_buffered(input, source, bytes, sched) ==
    IF buffered(input) < bytes
    THEN Decide(Fill(move_data_to_start(Grow(input, bytes)), source, sched), bytes)
    ELSE Some(input, source, bytes)

\* The 24-bit little-endian length of a chunk header.
chunk_len(header) == (header[4] * 65536) + (header[3] * 256) + header[2]

\* The chunk of type chunk_type whose body ensure_buffered answered with b:
\* res is "Chunk", "Err" (Incomplete Snappy chunk) or "Panic" (the expect
\* on a header whose body is missing).
ChunkOf(chunk_type, b) ==
    [res |-> CASE b.res = "Some" -> "Chunk"
               [] b.res = "None" -> "Panic"
               [] OTHER -> "Err",
     chunk_type |-> chunk_type, data |-> b.data,
     input |-> b.input, source |-> b.source]

\* next_chunk once ensure_buffered(HEADER_SIZE) has answered with h.
AfterHeader(h, sched) ==
    IF h.res # "Some"
    THEN [res |-> h.res, chunk_type |-> 0, data |-> <<>>,
          input |-> h.input, source |-> h.source]
    ELSE ChunkOf(h.data[1],
                 ensure_buffered(h.input, h.source, chunk_len(h.data), sched))

\* res is "Chunk", "None" (clean end of stream), "Err" or "Panic".
next_chunk(input, source, sched) ==
    AfterHeader(ensure_buffered(input, source, HEADER_SIZE, sched), sched)

(***************************************************************************)
(* read.rs: Chunk::crc, check_crc, SnappyFramedDecoder.                    *)
(***************************************************************************)
\* Chunk::crc: the stored checksum, or the "Snappy CRC truncated" error.
crc_ok(data) == Len(data) >= CRC_SIZE

crc(data) == U32(data[3] + (256 * data[4]), data[1] + (256 * data[2]))

\* Mutant: only the low half of the checksum is compared.
check_crc_low_half(expected, data) == expected[2] = masked_crc(data)[2]

check_crc(expected, data) == expected = masked_crc(data)

\* The input buffer holds 1024*1024 bytes in the source; scaled down here,
\* still larger than any chunk the encoder emits.
INPUT_CAPACITY == 16

SnappyFramedDecoderNew(stream, mode) ==
    [source |-> SourceNew(stream),
     input  |-> BufferNew(INPUT_CAPACITY),
     output |-> BufferNew(MAX_UNCOMPRESSED_CHUNK),
     mode   |-> mode]

Outcome(d, res, what, inp, src, out) ==
    [res |-> res, what |-> what,
     dec |-> [d EXCEPT !.input = inp, !.source = src, !.output = out]]

\* Mutant: the payload is stored before its CRC is checked.
StoreThenCheck(d, chunk, data) ==
    IF ~set_data_fits(d.output, data)
    THEN Outcome(d, "Panic", "SetDataAssert", chunk.input, chunk.source, d.output)
    ELSE IF d.mode = "Verify" /\ ~check_crc(crc(chunk.data), data)
    THEN Outcome(d, "Err", "CrcMismatch", chunk.input, chunk.source,
                 set_data(d.output, data))
    ELSE Outcome(d, "Data", "", chunk.input, chunk.source, set_data(d.output, data))

\* A data chunk once its payload is known: the CRC check in Verify mode,
\* then set_data and its length assertion.
Store(d, chunk, data) ==
    IF d.mode = "Verify" /\ ~check_crc(crc(chunk.data), data)
    THEN Outcome(d, "Err", "CrcMismatch", chunk.input, chunk.source, d.output)
    ELSE IF ~set_data_fits(d.output, data)
    THEN Outcome(d, "Panic", "SetDataAssert", chunk.input, chunk.source, d.output)
    ELSE Outcome(d, "Data", "", chunk.input, chunk.source, set_data(d.output, data))

\* A compressed chunk once snappy::uncompress has answered with u: the
\* expect panics on a rejection.
Uncompressed(d, chunk, u) ==
    IF ~u.ok
    THEN Outcome(d, "Panic", "DecompressionFailure", chunk.input, chunk.source, d.output)
    ELSE Store(d, chunk, u.data)

\* Mutant: the stored checksum is looked at in Verify mode only.
RECURSIVE DispatchLazyCrc(_, _, _)
DispatchLazyCrc(d, chunk, sched) ==
    CASE chunk.res = "None" ->
           Outcome(d, "Eof", "", chunk.input, chunk.source, d.output)
      [] chunk.res = "Err" ->
           Outcome(d, "Err", "IncompleteChunk", chunk.input, chunk.source, d.output)
      [] chunk.res = "Panic" ->
           Outcome(d, "Panic", "MissingData", chunk.input, chunk.source, d.output)
      [] chunk.res = "Chunk" /\ chunk.chunk_type = 0 ->
           IF d.mode = "Verify" /\ ~crc_ok(chunk.data)
           THEN Outcome(d, "Err", "CrcTruncated", chunk.input, chunk.source, d.output)
           ELSE Uncompressed(d, chunk, uncompress(Drop(chunk.data, CRC_SIZE)))
      [] chunk.res = "Chunk" /\ chunk.chunk_type = 1 ->
           IF d.mode = "Verify" /\ ~crc_ok(chunk.data)
           THEN Outcome(d, "Err", "CrcTruncated", chunk.input, chunk.source, d.output)
           ELSE Store(d, chunk, Drop(chunk.data, CRC_SIZE))
      [] OTHER ->
           DispatchLazyCrc([d EXCEPT !.input = chunk.input, !.source = chunk.source],
                           next_chunk(chunk.input, chunk.source, sched), sched)

\* The loop of read: chunks are pulled until one stores data, the stream
\* ends, an error is returned or a panic unwinds.
RECURSIVE ReadLoop(_, _)
Dispatch(d, chunk, sched) ==
    CASE chunk.res = "None" ->
           Outcome(d, "Eof", "", chunk.input, chunk.source, d.output)
      [] chunk.res = "Err" ->
           Outcome(d, "Err", "IncompleteChunk", chunk.input, chunk.source, d.output)
      [] chunk.res = "Panic" ->
           Outcome(d, "Panic", "MissingData", chunk.input, chunk.source, d.output)
      [] chunk.res = "Chunk" /\ chunk.chunk_type = 0 ->
           IF ~crc_ok(chunk.data)
           THEN Outcome(d, "Err", "CrcTruncated", chunk.input, chunk.source, d.output)
           ELSE Uncompressed(d, chunk, uncompress(Drop(chunk.data, CRC_SIZE)))
      [] chunk.res = "Chunk" /\ chunk.chunk_type = 1 ->
           IF ~crc_ok(chunk.data)
           THEN Outcome(d, "Err", "CrcTruncated", chunk.input, chunk.source, d.output)
           ELSE Store(d, chunk, Drop(chunk.data, CRC_SIZE))
      [] OTHER ->
           ReadLoop([d EXCEPT !.input = chunk.input, !.source = chunk.source], sched)

ReadLoop(d, sched) == Dispatch(d, next_chunk(d.input, d.source, sched), sched)

\* Mutant: the copy to the caller empties the output buffer.
ReturnAndDropRest(r, k) ==
    CASE r.res = "Eof" ->
           [kind |-> "Ok", what |-> "", bytes |-> <<>>, dec |-> r.dec]
      [] r.res = "Data" ->
           [kind |-> "Ok", what |-> "",
            bytes |-> consumed(r.dec.output, Min(buffered(r.dec.output), k)),
            dec |-> [r.dec EXCEPT
                       !.output = copy_out_and_consume(
                                     r.dec.output, buffered(r.dec.output))]]
      [] OTHER ->
           [kind |-> r.res, what |-> r.what, bytes |-> <<>>, dec |-> r.dec]

\* Mutant: the copy to the caller consumes the caller's buffer length.
ReturnUnclamped(r, k) ==
    CASE r.res = "Eof" ->
           [kind |-> "Ok", what |-> "", bytes |-> <<>>, dec |-> r.dec]
      [] r.res = "Data" ->
           [kind |-> "Ok", what |-> "",
            bytes |-> consumed(r.dec.output, Min(buffered(r.dec.output), k)),
            dec |-> [r.dec EXCEPT !.output = copy_out_and_consume(r.dec.output, k)]]
      [] OTHER ->
           [kind |-> r.res, what |-> r.what, bytes |-> <<>>, dec |-> r.dec]

\* The end of read: Ok(0) at the end of the stream, else the copy out of
\* the output buffer; an error or a panic passes through.
Return(r, k) ==
    CASE r.res = "Eof" ->
           [kind |-> "Ok", what |-> "", bytes |-> <<>>, dec |-> r.dec]
      [] r.res = "Data" ->
           [kind |-> "Ok", what |-> "",
            bytes |-> consumed(r.dec.output, Min(buffered(r.dec.output), k)),
            dec |-> [r.dec EXCEPT
                       !.output = copy_out_and_consume(
                                     r.dec.output, Min(buffered(r.dec.output), k))]]
      [] OTHER ->
           [kind |-> r.res, what |-> r.what, bytes |-> <<>>, dec |-> r.dec]

\* SnappyFramedDecoder::read with a caller buffer of k bytes.  The result
\* is Ok with the bytes copied, an Err, or a panic.
read(d, k, sched) ==
    Return(IF empty(d.output) THEN ReadLoop(d, sched)
           ELSE Outcome(d, "Data", "", d.input, d.source, d.output), k)

(***************************************************************************)
(* write.rs: SnappyFramedEncoder.  The sink is the byte sequence written   *)
(* so far; a write_all that fails leaves a prefix of its bytes behind.     *)
(***************************************************************************)
STREAM_IDENTIFIER == <<255, 6, 0, 0, 115, 78, 97, 80, 112, 89>>

\* dest.write_all(bytes): `fails` says whether the sink reports an error,
\* `part` how many of the bytes it took before doing so.
write_all(sink, bytes, fails, part) ==
    IF fails THEN [ok |-> FALSE, sink |-> sink \o Take(bytes, part)]
    ELSE [ok |-> TRUE, sink |-> sink \o bytes]

write_header(sink, fails, part) == write_all(sink, STREAM_IDENTIFIER, fails, part)

\* Mutant: the checksum is stored with its most significant byte first.
HeaderAndCrcBigEndian(len, c) ==
    <<0, len % 256, (len \div 256) % 256, (len \div 65536) % 256,
      c[1] \div 256, c[1] % 256, c[2] \div 256, c[2] % 256>>

\* The header_and_crc array of one chunk.
HeaderAndCrc(len, c) ==
    <<0, len % 256, (len \div 256) % 256, (len \div 65536) % 256,
      c[2] % 256, c[2] \div 256, c[1] % 256, c[1] \div 256>>

\* Mutant: the checksum is taken over the compressed bytes.
header_and_crc_of_compressed(data, compressed) ==
    HeaderAndCrc(CRC_SIZE + Len(compressed), masked_crc(compressed))

header_and_crc(data, compressed) ==
    HeaderAndCrc(CRC_SIZE + Len(compressed), masked_crc(data))

\* buf.chunks(MAX_UNCOMPRESSED_CHUNK): the loop of write from block `from`
\* on.  `call` numbers the write_all calls; call number failAt fails.
RECURSIVE WriteBlocks(_, _, _, _, _)
\* The second write_all of a block (the compressed bytes), after the first
\* answered with w1, and on to the next block.
WriteRest(w1, buf, compressed, call, failAt, part) ==
    IF ~w1.ok THEN w1
    ELSE IF call + 1 = failAt THEN write_all(w1.sink, compressed, TRUE, part)
    ELSE WriteBlocks(write_all(w1.sink, compressed, FALSE, part).sink,
                     Drop(buf, MAX_UNCOMPRESSED_CHUNK), call + 2, failAt, part)

WriteBlock(sink, buf, data, compressed, call, failAt, part) ==
    WriteRest(write_all(sink, header_and_crc(data, compressed), call = failAt, part),
              buf, compressed, call, failAt, part)

WriteBlocks(sink, buf, call, failAt, part) ==
    IF Len(buf) = 0 THEN [ok |-> TRUE, sink |-> sink]
    ELSE WriteBlock(sink, buf, Take(buf, MAX_UNCOMPRESSED_CHUNK),
                    compress(Take(buf, MAX_UNCOMPRESSED_CHUNK)), call, failAt, part)

\* Mutant: every write starts with the stream identifier.
write_with_header(sink, buf, failAt, part) ==
    WriteBlocks(sink \o STREAM_IDENTIFIER, buf, 1, failAt, part)

\* Mutant: a last block shorter than MAX_UNCOMPRESSED_CHUNK is held back.
write_full_blocks(sink, buf, failAt, part) ==
    WriteBlocks(sink,
                Take(buf, (Len(buf) \div MAX_UNCOMPRESSED_CHUNK) * MAX_UNCOMPRESSED_CHUNK),
                1, failAt, part)

\* The number of blocks buf.chunks(MAX_UNCOMPRESSED_CHUNK) yields for n bytes.
Blocks(n) == (n + MAX_UNCOMPRESSED_CHUNK - 1) \div MAX_UNCOMPRESSED_CHUNK

write(sink, buf, failAt, part) == WriteBlocks(sink, buf, 1, failAt, part)

(***************************************************************************)
(* Streams as they reach a decoder.  A stream is what an encoder wrote,    *)
(* possibly re-framed with uncompressed (type 0x01) data chunks as other   *)
(* encoders of the format emit them, then truncated, corrupted in one      *)
(* byte, or extended with further well-formed chunks (the invalid inputs   *)
(* listed at the end of read.rs).                                          *)
(***************************************************************************)
CrcBytes(c) == <<c[2] % 256, c[2] \div 256, c[1] % 256, c[1] \div 256>>

MakeChunk(type, body) ==
    <<type, Len(body) % 256, (Len(body) \div 256) % 256,
      (Len(body) \div 65536) % 256>> \o body

RawChunk(data) == MakeChunk(1, CrcBytes(masked_crc(data)) \o data)

CompressedChunk(data) == MakeChunk(0, CrcBytes(masked_crc(data)) \o compress(data))

\* The chunks of a well-formed stream from byte offset `off` on: the type,
\* the offset of the header and the body length of each.
RECURSIVE Chunks(_, _)
Chunks(stream, off) ==
    IF off + HEADER_SIZE > Len(stream) THEN <<>>
    ELSE LET len == chunk_len(SubSeq(stream, off + 1, off + HEADER_SIZE))
         IN  <<[type |-> stream[off + 1], start |-> off, len |-> len]>>
             \o Chunks(stream, off + HEADER_SIZE + len)

Body(stream, c) ==
    SubSeq(stream, c.start + HEADER_SIZE + 1, c.start + HEADER_SIZE + c.len)

Range(seq) == {seq[i] : i \in DOMAIN seq}

Boundaries(stream) ==
    {c.start : c \in Range(Chunks(stream, 0))} \cup {Len(stream)}

IsData(c) == c.type \in {0, 1}

\* A chunk with its compressed body stored uncompressed instead.
Reframed(c, body) ==
    IF c.type = 0
    THEN MakeChunk(1, Take(body, CRC_SIZE) \o uncompress(Drop(body, CRC_SIZE)).data)
    ELSE MakeChunk(c.type, body)

RECURSIVE Reframe(_, _)
Reframe(stream, cs) ==
    IF cs = <<>> THEN <<>>
    ELSE Reframed(Head(cs), Body(stream, Head(cs))) \o Reframe(stream, Tail(cs))

Base(sink, raw) == IF raw THEN Reframe(sink, Chunks(sink, 0)) ELSE sink

\* The 1-based positions of the body bytes (CRC field and payload) of the
\* data chunks of a stream.
DataBodyPositions(stream) ==
    UNION {(c.start + HEADER_SIZE + 1)..(c.start + HEADER_SIZE + c.len) :
             c \in {x \in Range(Chunks(stream, 0)) : IsData(x)}}

MutVals(b) == {(b + 1) % 256, (b + 128) % 256}

NonDataTypes == {2, 127, 128, 253, 254, 255}

NonDataChunks ==
    {MakeChunk(t, b) : t \in NonDataTypes, b \in {<<>>, <<1>>}}
    \cup {MakeChunk(254, Zeros(INPUT_CAPACITY + 1))}

\* A block one byte longer than the encoder would put into one chunk.
OversizeBlock == [i \in 1..(MAX_UNCOMPRESSED_CHUNK + 1) |-> 119 + i]

DataChunks ==
    {RawChunk(<<120>>), RawChunk(<<>>), CompressedChunk(<<>>),
     RawChunk(OversizeBlock), CompressedChunk(OversizeBlock),
     MakeChunk(1, <<0, 0, 0, 0>> \o OversizeBlock),
     MakeChunk(0, <<>>), MakeChunk(1, <<1, 2, 3>>),
     MakeChunk(0, CrcBytes(masked_crc(<<120>>)) \o <<2, 0, 120>>)}

RECURSIVE InsertAt(_, _, _)
InsertAt(stream, chunk, offs) ==
    IF offs = {} THEN stream
    ELSE LET o == CHOOSE x \in offs : \A y \in offs : y <= x
         IN  InsertAt(Take(stream, o) \o chunk \o Drop(stream, o), chunk, offs \ {o})

Tamper(kind, raw, at, val, chunk) ==
    [kind |-> kind, raw |-> raw, at |-> at, val |-> val, chunk |-> chunk]

Tampers(sink) ==
    {Tamper("none", raw, 0, 0, <<>>) : raw \in BOOLEAN}
    \cup {Tamper("cut", FALSE, o, 0, <<>>) : o \in 0..(Len(sink) - 1)}
    \cup UNION {{Tamper("flip", raw, p, v, <<>>) : v \in MutVals(Base(sink, raw)[p])} :
                  <<raw, p>> \in {x \in BOOLEAN \X (1..Len(sink)) :
                                    x[2] \in DataBodyPositions(Base(sink, x[1]))}}
    \cup {Tamper("insert", FALSE, o, 0, c) :
            o \in Boundaries(sink), c \in NonDataChunks \cup DataChunks}
    \cup {Tamper("insertAll", FALSE, 0, 0, c) : c \in NonDataChunks}

Altered(base, t) ==
    CASE t.kind = "cut" -> Take(base, t.at)
      [] t.kind = "flip" -> [base EXCEPT ![t.at] = t.val]
      [] t.kind = "insert" -> InsertAt(base, t.chunk, {t.at})
      [] t.kind = "insertAll" -> InsertAt(base, t.chunk, Boundaries(base))
      [] OTHER -> base

Tampered(sink, t) == Altered(Base(sink, t.raw), t)

(***************************************************************************)
(* The caller of a decoder.  It records every byte the reads delivered,    *)
(* the result of the last read, and what read_to_end would have returned:  *)
(* the bytes up to the first Ok(0), error or panic.                        *)
(***************************************************************************)
NoObs ==
    [delivered |-> <<>>,
     last |-> [kind |-> "None", what |-> "", n |-> 0],
     rte  |-> [state |-> "Running", what |-> "", out |-> <<>>]]

Observe(o, r) ==
    [delivered |-> o.delivered \o r.bytes,
     last |-> [kind |-> r.kind, what |-> r.what, n |-> Len(r.bytes)],
     rte  |-> IF o.rte.state # "Running" THEN o.rte
              ELSE IF r.kind = "Ok" /\ Len(r.bytes) > 0
              THEN [o.rte EXCEPT !.out = o.rte.out \o r.bytes]
              ELSE [state |-> IF r.kind = "Ok" THEN "Eof" ELSE r.kind,
                    what |-> r.what, out |-> o.rte.out]]

(***************************************************************************)
(* Bounds of the exploration.                                              *)
(***************************************************************************)
\* The longest input written to an encoder.
MaxInput == 3

\* The largest caller buffer handed to a decoder's read.
MaxK == 3

\* The largest piece a dribbling source hands over.
MaxPiece == 2

\* The bytes an encoder is fed: InputFile's first bytes, all different.
InputFile == [i \in 1..MaxInput |-> 96 + i]

Schedules == {<<p>> : p \in 1..MaxPiece} \cup {<<1, MaxPiece>>}

(***************************************************************************)
(* The state.                                                              *)
(***************************************************************************)
VARIABLES
    enc,       \* "None": no encoder; "Ready"; "Failed": an operation failed
    sink,      \* the bytes the encoder's sink holds
    written,   \* the bytes of all successful encoder writes, in order
    encRes,    \* the last encoder operation and its result
    phase,     \* "Encode", then "Decode" once a decoder has been created
    tamper,    \* how the decoder's stream was derived from the sink
    dec,       \* the decoder, reading from a dribbling source
    obs,       \* what dec's caller has seen
    ref,       \* a second decoder of the same stream, whose source hands
               \* over all it has in each call
    refObs,    \* what ref's caller has seen
    ubuf,      \* a Buffer on its own, driven through its interface
    usrc,      \* the source ensure_buffered fills ubuf from
    ures,      \* the last call on ubuf and what it returned
    cin,       \* a checksum computation on its own: its input
    crun       \* how far that computation is, and its result

vars == <<enc, sink, written, encRes, phase, tamper, dec, obs, ref, refObs,
          ubuf, usrc, ures, cin, crun>>

\* The program: an encoder, then decoders of its stream.
progVars == <<enc, sink, written, encRes, phase, tamper, dec, obs, ref, refObs>>

\* A Buffer on its own.
bufVars == <<ubuf, usrc, ures>>

\* A checksum computation on its own.
crcVars == <<cin, crun>>

\* The input of a checksum computation: a 32-bit word for mask, or bytes
\* for masked_crc.
CrcInput(kind, x, bytes) == [kind |-> kind, x |-> x, bytes |-> bytes]

\* Where a checksum computation stands: the step done last, the bytes
\* folded in so far, the running CRC register, the value the step
\* produced, and whether check_crc accepted.
CrcRun(op, pos, acc, val, ok) ==
    [op |-> op, pos |-> pos, acc |-> acc, val |-> val, ok |-> ok]

\* No checksum computation under way.
CrcIdle ==
    /\ cin = CrcInput("word", U32(0, 0), <<>>)
    /\ crun = CrcRun("idle", 0, U32(0, 0), U32(0, 0), FALSE)

\* What a call on ubuf left behind: the call, its argument, its result,
\* the bytes it returned; `floor` is the capacity after the last call that
\* set it outright (new, add_capacity), `top` the largest length that
\* ensure_buffered was asked for since then with fewer bytes buffered.
Called(op, n, res, data, floor, top) ==
    [op |-> op, n |-> n, res |-> res, data |-> data, floor |-> floor, top |-> top]

encVars == <<enc, sink, written, encRes>>

decVars == <<phase, tamper, dec, obs, ref, refObs>>

\* Before the program has made its first call.
ProgInit ==
    /\ enc = "None"
    /\ sink = <<>>
    /\ written = <<>>
    /\ encRes = [op |-> "None", ok |-> TRUE, n |-> 0]
    /\ phase = "Encode"
    /\ tamper = Tamper("none", FALSE, 0, 0, <<>>)
    /\ dec = SnappyFramedDecoderNew(<<>>, "Verify")
    /\ obs = NoObs
    /\ ref = SnappyFramedDecoderNew(<<>>, "Verify")
    /\ refObs = NoObs

Init ==
    /\ ProgInit
    /\ ubuf = BufferNew(0)
    /\ usrc = SourceNew(<<>>)
    /\ ures = Called("new", 0, "Ok", <<>>, 0, 0)
    /\ CrcIdle

\* SnappyFramedEncoder::new
EncoderNew(fails, part) ==
    /\ phase = "Encode"
    /\ enc = "None"
    /\ encRes.op = "None"
    /\ LET w == write_header(sink, fails, part)
       IN  /\ sink' = w.sink
           /\ enc' = IF w.ok THEN "Ready" ELSE "None"
           /\ encRes' = [op |-> "New", ok |-> w.ok, n |-> 0]
    /\ UNCHANGED <<written, decVars, bufVars, crcVars>>

\* SnappyFramedEncoder::write of the next n bytes of the input file
EncoderWrite(n, failAt, part) ==
    /\ phase = "Encode"
    /\ enc = "Ready"
    /\ Len(written) + n <= MaxInput
    /\ LET buf == SubSeq(InputFile, Len(written) + 1, Len(written) + n)
           w   == write(sink, buf, failAt, part)
       IN  /\ sink' = w.sink
           /\ enc' = IF w.ok THEN "Ready" ELSE "Failed"
           /\ written' = IF w.ok THEN written \o buf ELSE written
           /\ encRes' = [op |-> "Write", ok |-> w.ok, n |-> IF w.ok THEN Len(buf) ELSE 0]
    /\ UNCHANGED <<decVars, bufVars, crcVars>>

\* SnappyFramedEncoder::flush
EncoderFlush(fails) ==
    /\ phase = "Encode"
    /\ enc = "Ready"
    /\ enc' = IF fails THEN "Failed" ELSE "Ready"
    /\ encRes' = [op |-> "Flush", ok |-> ~fails, n |-> 0]
    /\ UNCHANGED <<sink, written, decVars, bufVars, crcVars>>

\* SnappyFramedDecoder::new on a stream derived from the sink, once the
\* encoder has been flushed (as the tests do before they decode)
DecoderNew ==
    /\ phase = "Encode"
    /\ enc = "Ready"
    /\ encRes.op = "Flush"
    /\ \E mode \in {"Verify", "Ignore"} : \E t \in Tampers(sink) :
          /\ tamper' = t
          /\ dec' = SnappyFramedDecoderNew(Tampered(sink, t), mode)
          /\ ref' = SnappyFramedDecoderNew(Tampered(sink, t), mode)
    /\ phase' = "Decode"
    /\ obs' = NoObs
    /\ refObs' = NoObs
    /\ UNCHANGED <<encVars, bufVars, crcVars>>

\* A read returned r: the decoder and what its caller has seen afterwards.
Returned(d, o, before, r) == d = r.dec /\ o = Observe(before, r)

\* SnappyFramedDecoder::read on both decoders, with a caller buffer of k
\* bytes; sched is how dec's source dribbles during this call.
DecoderRead(k, sched) ==
    /\ phase = "Decode"
    /\ obs.last.kind # "Panic"
    /\ Returned(dec', obs', obs, read(dec, k, sched))
    /\ IF refObs.last.kind # "Panic"
       THEN Returned(ref', refObs', refObs, read(ref, k, <<>>))
       ELSE UNCHANGED <<ref, refObs>>
    /\ UNCHANGED <<encVars, phase, tamper, bufVars, crcVars>>

Next ==
    \/ \E fails \in BOOLEAN : \E part \in (IF fails THEN {0, 1} ELSE {0}) :
          EncoderNew(fails, part)
    \/ \E n \in 0..MaxInput : \E failAt \in 0..(2 * Blocks(n)) :
          \E part \in (IF failAt = 0 THEN {0} ELSE {0, 1}) :
              EncoderWrite(n, failAt, part)
    \/ \E fails \in BOOLEAN : EncoderFlush(fails)
    \/ DecoderNew
    \/ \E k \in 1..MaxK, sched \in Schedules : DecoderRead(k, sched)

Spec == Init /\ [][Next]_vars

(***************************************************************************)
(* A Buffer on its own: any sequence of calls of its interface, with       *)
(* ensure_buffered among them.  added is called for bytes that were        *)
(* written to the slice space_to_fill returned, consume for bytes that are *)
(* buffered, set_data panics on data that does not fit;                    *)
(* copy_out_and_consume takes any count that stays inside the vector (a    *)
(* larger one reads past its end, outside of what the language defines).   *)
(* The calls stop once the cursors have left their order, where buffered() *)
(* underflows.                                                             *)
(***************************************************************************)
\* The largest capacity a Buffer is created with.
MaxCap == 2

\* The largest byte count asked of a Buffer, and the capacity it may reach.
MaxAsk == 3

Max(a, b) == IF a >= b THEN a ELSE b

\* The bytes the source of ubuf delivers, all different.
BufSource == [i \in 1..(MaxAsk + 1) |-> 10 + i]

\* The bytes handed to set_data.
BufData == [i \in 1..MaxAsk |-> 20 + i]

Ordered(b) == 0 <= b.begin /\ b.begin <= b.end /\ b.end <= capacity(b)

BufInit ==
    /\ ProgInit
    /\ \E sz \in 0..MaxCap :
          /\ ubuf = BufferNew(sz)
          /\ ures = Called("new", sz, "Ok", <<>>, sz, 0)
    /\ \E m \in 0..Len(BufSource) : usrc = SourceNew(Take(BufSource, m))
    /\ CrcIdle

BufMoveDataToStart ==
    /\ Ordered(ubuf)
    /\ ubuf' = move_data_to_start(ubuf)
    /\ ures' = Called("move_data_to_start", 0, "Ok", <<>>, ures.floor, ures.top)
    /\ UNCHANGED <<usrc, progVars, crcVars>>

\* space_to_fill, a write of w into the slice, added(w.len())
BufAdded(w) ==
    /\ Ordered(ubuf)
    /\ Len(w) <= space_to_fill(ubuf)
    /\ ubuf' = added(Filled(ubuf, w), Len(w))
    /\ ures' = Called("added", Len(w), "Ok", <<>>, ures.floor, ures.top)
    /\ UNCHANGED <<usrc, progVars, crcVars>>

BufSetData(data) ==
    /\ Ordered(ubuf)
    /\ ubuf' = IF set_data_fits(ubuf, data) THEN set_data(ubuf, data) ELSE ubuf
    /\ ures' = Called("set_data", Len(data),
                      IF set_data_fits(ubuf, data) THEN "Ok" ELSE "Panic",
                      <<>>, ures.floor, ures.top)
    /\ UNCHANGED <<usrc, progVars, crcVars>>

BufConsume(n) ==
    /\ Ordered(ubuf)
    /\ n <= buffered(ubuf)
    /\ ubuf' = consume(ubuf, n)
    /\ ures' = Called("consume", n, "Ok", consumed(ubuf, n), ures.floor, ures.top)
    /\ UNCHANGED <<usrc, progVars, crcVars>>

\* copy_out_and_consume(n, dest) with dest.len() >= n
BufCopyOutAndConsume(n) ==
    /\ Ordered(ubuf)
    /\ ubuf.begin + n <= capacity(ubuf)
    /\ ubuf' = copy_out_and_consume(ubuf, n)
    /\ ures' = Called("copy_out_and_consume", n, "Ok",
                      consumed(ubuf, Min(n, buffered(ubuf))), ures.floor, ures.top)
    /\ UNCHANGED <<usrc, progVars, crcVars>>

BufAddCapacity(n) ==
    /\ Ordered(ubuf)
    /\ capacity(ubuf) + n <= MaxAsk
    /\ ubuf' = add_capacity(ubuf, n)
    /\ ures' = Called("add_capacity", n, "Ok", <<>>, capacity(ubuf) + n, 0)
    /\ UNCHANGED <<usrc, progVars, crcVars>>

\* ensure_buffered(n, source) answered with r.
EnsureBufferedReturned(r, n) ==
    /\ ubuf' = r.input
    /\ usrc' = r.source
    /\ ures' = Called("ensure_buffered", n, r.res, r.data, ures.floor,
                      IF buffered(ubuf) < n THEN Max(ures.top, n) ELSE ures.top)

BufEnsureBuffered(n, sched) ==
    /\ Ordered(ubuf)
    /\ EnsureBufferedReturned(ensure_buffered(ubuf, usrc, n, sched), n)
    /\ UNCHANGED <<progVars, crcVars>>

BufNext ==
    \/ BufMoveDataToStart
    \/ BufAdded(<<7>>)
    \/ \E m \in 0..MaxAsk : BufSetData(Take(BufData, m))
    \/ \E n \in 0..MaxAsk : BufConsume(n)
    \/ \E n \in 0..MaxAsk : BufCopyOutAndConsume(n)
    \/ \E n \in 1..MaxAsk : BufAddCapacity(n)
    \/ \E n \in 0..MaxAsk, sched \in {<<>>, <<1>>} : BufEnsureBuffered(n, sched)

BufferSpec == BufInit /\ [][BufNext]_vars

(***************************************************************************)
(* The checksum on its own.  mask is applied to 32-bit words; masked_crc   *)
(* is computed over byte strings, the CRC register taking one byte at a    *)
(* time as the loop of checksum_castagnoli folds them in; the encoder then *)
(* stores the value in the header_and_crc of a chunk, and the decoder      *)
(* takes it from the chunk and compares.                                   *)
(***************************************************************************)
\* The 16-bit halves the words given to mask are made of: the extremes,
\* and halves around 0x5D7D1528, the least rotated word whose sum with
\* 0xA282EAD8 leaves 32 bits.
CrcHalves == {0, 1, 5415, 5416, 23932, 23933, 32767, 32768, 44734, 65535}

CrcWords == {U32(hi, lo) : hi \in CrcHalves, lo \in CrcHalves}

\* The inputs of the tests unmasked_checksum and masked_checksum.
Digits == <<49, 50, 51, 52, 53, 54, 55, 56, 57>>

AllZeros == [i \in 1..32 |-> 0]

AllOnes == [i \in 1..32 |-> 255]

Incrementing == [i \in 1..32 |-> i - 1]

LettersAB == [i \in 1..25 |-> IF i >= 13 /\ i <= 19 THEN 98 ELSE 97]

\* The byte strings given to masked_crc: the inputs of the tests and blocks
\* as short as those the program writes.
CrcTexts ==
    {Digits, AllZeros, AllOnes, Incrementing, LettersAB,
     <<>>, <<0>>, <<255>>, <<1, 2>>, <<97, 98, 99>>}

\* snappy::compress is modelled for blocks this short (one literal).
OneLiteral(data) == Len(data) < 15

CrcInit ==
    /\ ProgInit
    /\ ubuf = BufferNew(0)
    /\ usrc = SourceNew(<<>>)
    /\ ures = Called("new", 0, "Ok", <<>>, 0, 0)
    /\ \/ \E x \in CrcWords : cin = CrcInput("word", x, <<>>)
       \/ \E bytes \in CrcTexts : cin = CrcInput("bytes", U32(0, 0), bytes)
    /\ crun = CrcRun("idle", 0, U32(0, 0), U32(0, 0), FALSE)

\* mask(x)
CrcMask ==
    /\ cin.kind = "word"
    /\ crun.op = "idle"
    /\ crun' = CrcRun("mask", 0, cin.x, mask(cin.x), FALSE)
    /\ UNCHANGED <<cin, progVars, bufVars>>

\* checksum_castagnoli: the register starts as 0xFFFFFFFF.
CrcStart ==
    /\ cin.kind = "bytes"
    /\ crun.op = "idle"
    /\ crun' = CrcRun("update", 0, U32(65535, 65535), U32(0, 0), FALSE)
    /\ UNCHANGED <<cin, progVars, bufVars>>

\* checksum_castagnoli: the next byte goes through the table.
CrcByte ==
    /\ crun.op = "update"
    /\ crun.pos < Len(cin.bytes)
    /\ crun' = CrcRun("update", crun.pos + 1,
                      ByteStep(crun.acc, cin.bytes[crun.pos + 1]),
                      U32(0, 0), FALSE)
    /\ UNCHANGED <<cin, progVars, bufVars>>

\* checksum_castagnoli: after the last byte the register is inverted.
CrcFinish ==
    /\ crun.op = "update"
    /\ crun.pos = Len(cin.bytes)
    /\ crun' = CrcRun("checksum_castagnoli", crun.pos, crun.acc,
                      Xor32(crun.acc, U32(65535, 65535)), FALSE)
    /\ UNCHANGED <<cin, progVars, bufVars>>

\* masked_crc: mask of the checksum.
CrcMasked ==
    /\ crun.op = "checksum_castagnoli"
    /\ crun' = CrcRun("masked_crc", crun.pos, crun.acc, mask(crun.val), FALSE)
    /\ UNCHANGED <<cin, progVars, bufVars>>

\* The chunk write emits for the block cin.bytes, from its CRC field on.
CrcChunkData ==
    Drop(header_and_crc(cin.bytes, compress(cin.bytes)), HEADER_SIZE)
        \o compress(cin.bytes)

\* write: the checksum goes into header_and_crc; val is what Chunk::crc
\* takes out of the chunk.
CrcStored ==
    /\ crun.op = "masked_crc"
    /\ OneLiteral(cin.bytes)
    /\ crun' = CrcRun("header_and_crc", crun.pos, crun.acc,
                      crc(CrcChunkData), FALSE)
    /\ UNCHANGED <<cin, progVars, bufVars>>

\* read: check_crc of the stored value against the uncompressed payload.
CrcChecked ==
    /\ crun.op = "header_and_crc"
    /\ crun' = CrcRun("check_crc", crun.pos, crun.acc, crun.val,
                      check_crc(crun.val,
                                uncompress(Drop(CrcChunkData, CRC_SIZE)).data))
    /\ UNCHANGED <<cin, progVars, bufVars>>

CrcNext ==
    \/ CrcMask
    \/ CrcStart
    \/ CrcByte
    \/ CrcFinish
    \/ CrcMasked
    \/ CrcStored
    \/ CrcChecked

CrcSpec == CrcInit /\ [][CrcNext]_vars

(***************************************************************************)
(* What the claims speak about.                                            *)
(***************************************************************************)
\* The caller of dec has read to the end: to the first Ok(0), error or panic.
Stopped == phase = "Decode" /\ obs.rte.state # "Running"

\* The stream before it was altered, and the stream the decoders read.
BaseStream == Base(sink, tamper.raw)

Stream == dec.source.data

\* The payload a data chunk carries, <<>> for any other chunk.
Payload(stream, c) ==
    CASE c.type = 0 -> uncompress(Drop(Body(stream, c), CRC_SIZE)).data
      [] c.type = 1 -> Drop(Body(stream, c), CRC_SIZE)
      [] OTHER -> <<>>

RECURSIVE Payloads(_, _)
Payloads(stream, cs) ==
    IF cs = <<>> THEN <<>>
    ELSE Payload(stream, Head(cs)) \o Payloads(stream, Tail(cs))

\* The chunks of a stream that start before byte offset `off`.
ChunksBefore(stream, off) ==
    SelectSeq(Chunks(stream, 0), LAMBDA c : c.start < off)

\* The chunk of the base stream that holds the flipped byte.
FlippedChunk ==
    CHOOSE c \in Range(Chunks(BaseStream, 0)) :
        /\ c.start + HEADER_SIZE < tamper.at
        /\ tamper.at <= c.start + HEADER_SIZE + c.len

FlipInCrcField == tamper.at <= FlippedChunk.start + HEADER_SIZE + CRC_SIZE

\* The decompressor accepts the payload of the chunk with the flipped byte.
FlippedDecompresses ==
    FlippedChunk.type = 1
    \/ uncompress(Drop(Body(Stream, FlippedChunk), CRC_SIZE)).ok

\* How often `pat` occurs in `s`.
Occurrences(s, pat) ==
    Cardinality({i \in 0..(Len(s) - Len(pat)) : SubSeq(s, i + 1, i + Len(pat)) = pat})

(***************************************************************************)
(* C1.  Round trip: what a fresh encoder wrote, read to the end by a       *)
(* decoder (from a cursor or from a dribbling source, in either CRC mode), *)
(* is exactly the bytes written: the read ends with Ok(0), not an error,   *)
(* and has delivered every byte in order.                                  *)
(***************************************************************************)
C1_RoundTrip ==
    (phase = "Decode" /\ tamper.kind = "none" /\ ~tamper.raw) =>
        /\ Stopped => (obs.rte.state = "Eof" /\ obs.rte.out = written)
        /\ refObs.rte.state # "Running" =>
               (refObs.rte.state = "Eof" /\ refObs.rte.out = written)

\* A Verify-mode round trip of an input longer than one block has ended.
C1_Witness ==
    /\ Stopped /\ tamper.kind = "none" /\ ~tamper.raw /\ dec.mode = "Verify"
    /\ Len(written) > MAX_UNCOMPRESSED_CHUNK
    /\ obs.rte.state = "Eof" /\ obs.rte.out = written

(***************************************************************************)
(* C2.  Partial reads: a decoder whose source dribbles has, after the same *)
(* read calls, delivered the same bytes and got the same results (errors   *)
(* and panics included) as a decoder whose source hands over everything    *)
(* it has.                                                                 *)
(***************************************************************************)
C2_PartialReadResilience == phase = "Decode" => obs = refObs

\* Both decoders ended in the same error after delivering some bytes.
C2_Witness ==
    /\ Stopped /\ obs = refObs
    /\ obs.rte.state = "Err" /\ Len(obs.rte.out) > 0

(***************************************************************************)
(* C3.  Truncation: a stream cut at an offset that is not a chunk boundary *)
(* makes the read to the end finish with an IncompleteChunk or             *)
(* CrcTruncated error.  (Refuted: a cut right after a header that          *)
(* promises a body ends in the panic of next_chunk's expect.)              *)
(***************************************************************************)
C3_TruncationIsAnError ==
    (Stopped /\ tamper.kind = "cut" /\ tamper.at \notin Boundaries(BaseStream)) =>
        (obs.rte.state = "Err" /\ obs.rte.what \in {"IncompleteChunk", "CrcTruncated"})

DataChunksOf(stream) == {c \in Range(Chunks(stream, 0)) : IsData(c)}

Sound(stream, c) ==
    /\ c.len >= CRC_SIZE
    /\ c.type = 1 \/ uncompress(Drop(Body(stream, c), CRC_SIZE)).ok

WrongCrc(stream, c) == crc(Body(stream, c)) # masked_crc(Payload(stream, c))

WrongCrcsOnly ==
    /\ tamper.kind # "cut"
    /\ \A c \in DataChunksOf(Stream) : Sound(Stream, c)
    /\ \E c \in DataChunksOf(Stream) : WrongCrc(Stream, c)

C5_IgnoreNeverFails ==
    (Stopped /\ dec.mode = "Ignore" /\ WrongCrcsOnly) =>
        (obs.rte.state = "Eof" /\ obs.rte.out = Payloads(Stream, Chunks(Stream, 0)))

(***************************************************************************)
(* C6.  Non-data chunks are transparent: with a reserved (0x02..0x7F,      *)
(* 0x80..0xFD), padding (0xFE) or stream identifier (0xFF) chunk inserted  *)
(* at one chunk boundary or at all of them, with an empty body, a short    *)
(* body or a body larger than the input buffer, the read to the end ends   *)
(* with Ok(0) and has delivered what the stream without them decodes to.   *)
(***************************************************************************)
InsertedNonData ==
    tamper.kind \in {"insert", "insertAll"} /\ tamper.chunk \in NonDataChunks

C6_NonDataChunksTransparent ==
    (Stopped /\ InsertedNonData) =>
        (obs.rte.state = "Eof" /\ obs.rte.out = written)

\* A chunk larger than the input buffer, put at every boundary, was skipped.
C6_Witness ==
    /\ Stopped /\ tamper.kind = "insertAll"
    /\ Len(tamper.chunk) > INPUT_CAPACITY
    /\ Len(written) > MAX_UNCOMPRESSED_CHUNK
    /\ obs.rte.state = "Eof" /\ obs.rte.out = written

(***************************************************************************)
(* C7.  Clean end of stream: a read that finds the output buffer empty,    *)
(* the input buffer empty and the source exhausted returns Ok(0), and does *)
(* so again on every later call; a source that never had a byte included.  *)
(***************************************************************************)
CleanEnd(d) == empty(d.output) /\ empty(d.input) /\ Remaining(d.source) = 0

C7_CleanEndReturnsZero ==
    [][(phase = "Decode" /\ CleanEnd(dec) /\ obs.last.kind # "Panic") =>
          (obs'.last = [kind |-> "Ok", what |-> "", n |-> 0] /\ CleanEnd(dec'))]_vars

\* A second read at the clean end of a stream that carried data.
C7_Witness ==
    /\ phase = "Decode" /\ CleanEnd(dec) /\ Len(obs.delivered) > 0
    /\ obs.rte.state = "Eof" /\ obs.delivered = written
    /\ obs.last = [kind |-> "Ok", what |-> "", n |-> 0]

(***************************************************************************)
(* C8.  A type 0x00 chunk whose payload the decompressor rejects makes     *)
(* read return a DecompressionFailure error, in both CRC modes.  (Refuted: *)
(* the expect on the decompressor's result panics.)                        *)
(***************************************************************************)
RejectedPayload ==
    \/ /\ tamper.kind = "flip"
       /\ FlippedChunk.type = 0
       /\ ~FlippedDecompresses
    \/ /\ tamper.kind = "insert"
       /\ tamper.chunk[1] = 0
       /\ Len(tamper.chunk) >= HEADER_SIZE + CRC_SIZE
       /\ ~uncompress(Drop(tamper.chunk, HEADER_SIZE + CRC_SIZE)).ok

C8_RejectionIsAnError ==
    (Stopped /\ RejectedPayload) =>
        (obs.rte.state = "Err" /\ obs.rte.what = "DecompressionFailure")

(***************************************************************************)
(* C9.  A data chunk with a valid CRC and a payload longer than            *)
(* MAX_UNCOMPRESSED_CHUNK is tolerated: the read to the end delivers every *)
(* payload of the stream, the long one included.  (Refuted: set_data       *)
(* asserts that the payload fits the output buffer.)                       *)
(***************************************************************************)
InsertedOversize ==
    /\ tamper.kind = "insert"
    /\ tamper.chunk \in {RawChunk(OversizeBlock), CompressedChunk(OversizeBlock)}

C9_OversizeTolerated ==
    (Stopped /\ InsertedOversize) =>
        (obs.rte.state = "Eof" /\ obs.rte.out = Payloads(Stream, Chunks(Stream, 0)))

(***************************************************************************)
(* C10.  The stream identifier is written once, by the constructor: the    *)
(* sink of every encoder that exists starts with its ten bytes and holds   *)
(* them nowhere else, whatever was written and flushed afterwards; and a   *)
(* constructor whose write of the identifier failed leaves no encoder.     *)
(***************************************************************************)
C10_IdentifierOnce ==
    /\ enc \in {"Ready", "Failed"} =>
          /\ Take(sink, Len(STREAM_IDENTIFIER)) = STREAM_IDENTIFIER
          /\ Occurrences(sink, STREAM_IDENTIFIER) = 1
    /\ (encRes.op = "New" /\ ~encRes.ok) => enc = "None"

\* Three blocks went out in data chunks and a flush followed.
C10_Witness ==
    /\ enc = "Ready" /\ encRes.op = "Flush" /\ encRes.ok
    /\ Len(Chunks(sink, 0)) >= 4
    /\ Occurrences(sink, STREAM_IDENTIFIER) = 1

(***************************************************************************)
(* C11.  Every successful write(buf) appends to the sink, on its own,      *)
(* ceil(len(buf) / MAX_UNCOMPRESSED_CHUNK) chunks that carry the           *)
(* consecutive blocks of buf, each but the last of MAX_UNCOMPRESSED_CHUNK  *)
(* bytes, and returns len(buf); flush appends nothing.                     *)
(***************************************************************************)
Ceil(n) ==
    IF n % MAX_UNCOMPRESSED_CHUNK = 0 THEN n \div MAX_UNCOMPRESSED_CHUNK
    ELSE (n \div MAX_UNCOMPRESSED_CHUNK) + 1

\* The i-th block of buf.
Block(buf, i) ==
    SubSeq(buf, ((i - 1) * MAX_UNCOMPRESSED_CHUNK) + 1,
           Min(i * MAX_UNCOMPRESSED_CHUNK, Len(buf)))

\* `emitted` is exactly the chunks of the blocks of buf, cut as chunks cs.
CarriesBlocks(emitted, cs, buf) ==
    /\ Len(cs) = Ceil(Len(buf))
    /\ \A i \in 1..Len(cs) :
          /\ cs[i].type = 0
          /\ cs[i].start + HEADER_SIZE + cs[i].len <= Len(emitted)
          /\ Payload(emitted, cs[i]) = Block(buf, i)
    /\ cs = <<>> => emitted = <<>>
    /\ cs # <<>> =>
          cs[Len(cs)].start + HEADER_SIZE + cs[Len(cs)].len = Len(emitted)

WriteEmitted(emitted, buf, n) ==
    CarriesBlocks(emitted, Chunks(emitted, 0), buf) /\ n = Len(buf)

C11_WriteEmitsItsBlocks ==
    [][/\ (encRes'.op = "Write" /\ encRes'.ok) =>
             /\ Take(sink', Len(sink)) = sink
             /\ Take(written', Len(written)) = written
             /\ WriteEmitted(Drop(sink', Len(sink)), Drop(written', Len(written)),
                             encRes'.n)
       /\ encRes'.op = "Flush" => sink' = sink]_vars

\* Two writes of one byte each left two chunks after the identifier, where
\* one write of both bytes leaves a single chunk.
C11_Witness ==
    /\ encRes.op = "Write" /\ encRes.ok /\ encRes.n = 1
    /\ Len(written) = 2
    /\ Len(Chunks(sink, 0)) = 1 + Ceil(1) + Ceil(1)
    /\ Ceil(Len(written)) < Ceil(1) + Ceil(1)

(***************************************************************************)
(* C12.  Every chunk an encoder emitted is laid out as: the type byte 0,   *)
(* the length 4 + compressed length in three little-endian bytes, the      *)
(* masked CRC of the uncompressed block in four little-endian bytes, the   *)
(* compressed block; and the decoder's parse of header and CRC gives back  *)
(* that type, length and checksum.                                         *)
(***************************************************************************)
\* The chunk at byte offset c.start of the stream holds the block `data`.
LaidOut(stream, c, data) ==
    /\ stream[c.start + 1] = 0
    /\ stream[c.start + 2] + (256 * stream[c.start + 3])
          + (65536 * stream[c.start + 4]) = CRC_SIZE + Len(compress(data))
    /\ SubSeq(stream, c.start + 5, c.start + 8) = CrcBytes(masked_crc(data))
    /\ SubSeq(stream, c.start + 9, c.start + 8 + Len(compress(data))) = compress(data)
    /\ c.type = 0
    /\ c.len = CRC_SIZE + Len(compress(data))
    /\ crc(Body(stream, c)) = masked_crc(data)

\* The blocks the chunks after the identifier carry, split as `lens` says.
RECURSIVE LaidOutAll(_, _, _)
LaidOutAll(stream, cs, data) ==
    IF cs = <<>> THEN data = <<>>
    ELSE \E n \in 1..Min(MAX_UNCOMPRESSED_CHUNK, Len(data)) :
            /\ LaidOut(stream, Head(cs), Take(data, n))
            /\ LaidOutAll(stream, Tail(cs), Drop(data, n))

C12_ChunkLayout ==
    enc = "Ready" => LaidOutAll(sink, Tail(Chunks(sink, 0)), written)

\* A stream of three chunks, the last of them with a full block.
C12_Witness ==
    /\ enc = "Ready" /\ Len(Chunks(sink, 0)) = 3 /\ Len(written) = MaxInput
    /\ LaidOut(sink, Chunks(sink, 0)[3],
               Drop(written, Len(written) - MAX_UNCOMPRESSED_CHUNK))

(***************************************************************************)
(* C14.  IncompleteChunk, CrcTruncated and CrcMismatch errors are fatal:   *)
(* after a read has returned one of them, no later read on the decoder     *)
(* delivers bytes.  (Refuted: the decoder keeps no record of the error;    *)
(* the failed chunk is consumed and the next read goes on with the chunk   *)
(* after it.)                                                              *)
(***************************************************************************)
C14_ErrorsAreFatal ==
    (phase = "Decode" /\ obs.rte.state = "Err"
        /\ obs.rte.what \in {"IncompleteChunk", "CrcTruncated", "CrcMismatch"}) =>
        obs.delivered = obs.rte.out

(***************************************************************************)
(* C17.  A read with a caller buffer of k bytes returns                    *)
(* min(output.buffered(), k) bytes, the next unread ones of the output     *)
(* buffer, and keeps the rest; while the output buffer is not empty it     *)
(* touches neither the input buffer nor the source.  Hence, whatever the   *)
(* sizes k, the bytes returned so far followed by the unread bytes of the  *)
(* output buffer are the payloads of the data chunks pulled so far, in     *)
(* stream order (for a stream on which no read fails with an error, up to  *)
(* a panic if there is one).                                               *)
(***************************************************************************)
Unread(b) == SubSeq(b.buffer, b.begin + 1, b.end)

\* The read of decoder d with a caller buffer of k bytes returned r.
ReadCopies(d, k, r) ==
    /\ r.kind = "Ok" => Len(r.bytes) = Min(Len(r.bytes) + buffered(r.dec.output), k)
    /\ ~empty(d.output) =>
          /\ r.kind = "Ok"
          /\ Len(r.bytes) = Min(buffered(d.output), k)
          /\ r.bytes \o Unread(r.dec.output) = Unread(d.output)
          /\ r.dec.input = d.input
          /\ r.dec.source = d.source

\* The offset in the stream up to which the decoder has pulled chunks.
Pulled(d) == d.source.pos - buffered(d.input)

\* No read of the stream can return an error.
NoErrorAhead ==
    /\ tamper.kind # "cut"
    /\ \A c \in DataChunksOf(Stream) : Sound(Stream, c)
    /\ dec.mode = "Verify" => \A c \in DataChunksOf(Stream) : ~WrongCrc(Stream, c)

C17_ReadCopiesMin ==
    (phase = "Decode" /\ obs.last.kind # "Panic") =>
        /\ \A k \in 1..MaxK : \A sched \in Schedules :
              ReadCopies(dec, k, read(dec, k, sched))
        /\ NoErrorAhead =>
              obs.delivered \o Unread(dec.output)
                 = Payloads(Stream, ChunksBefore(Stream, Pulled(dec)))

\* One byte of a two-byte chunk has been returned, the other is kept; the
\* chunk after it has not been pulled.
C17_Witness ==
    /\ phase = "Decode" /\ tamper.kind = "none" /\ obs.last.kind = "Ok"
    /\ obs.last.n = 1 /\ buffered(dec.output) = 1
    /\ Len(obs.delivered) = 1 /\ Len(written) > MAX_UNCOMPRESSED_CHUNK
    /\ Pulled(dec) < Len(Stream)

(***************************************************************************)
(* C18.  A data chunk (type 0x00 or 0x01) with a body of fewer than 4      *)
(* bytes makes read return the CrcTruncated error, in Verify and in Ignore *)
(* mode: the payloads of the chunks before it have been delivered, the     *)
(* decompressor is not tried on it (its rejection would be a panic) and    *)
(* the output buffer is left as it was.                                    *)
(***************************************************************************)
InsertedShortData ==
    /\ tamper.kind = "insert"
    /\ tamper.chunk[1] \in {0, 1}
    /\ Len(tamper.chunk) < HEADER_SIZE + CRC_SIZE

C18_ShortBodyIsCrcTruncated ==
    /\ [](Stopped /\ InsertedShortData =>
            /\ obs.rte.state = "Err" /\ obs.rte.what = "CrcTruncated"
            /\ obs.rte.out = Payloads(Stream, ChunksBefore(Stream, tamper.at)))
    /\ [][obs'.last.what = "CrcTruncated" =>
            (empty(dec.output) /\ dec'.output = dec.output)]_vars

\* An empty type 0x00 chunk after the first data chunk, in Ignore mode.
C18_Witness ==
    /\ Stopped /\ InsertedShortData /\ dec.mode = "Ignore"
    /\ tamper.chunk[1] = 0
    /\ obs.rte.what = "CrcTruncated" /\ Len(obs.rte.out) > 0

(***************************************************************************)
(* C20.  A read with a caller buffer of at least one byte returns 0 bytes  *)
(* only at the clean end of the stream, when every chunk has been          *)
(* consumed.  (Refuted: a data chunk with an empty payload makes read      *)
(* return Ok(0) with chunks still ahead.)                                  *)
(***************************************************************************)
C20_ZeroOnlyAtEnd ==
    (phase = "Decode" /\ obs.last.kind = "Ok" /\ obs.last.n = 0) =>
        (Remaining(dec.source) = 0 /\ empty(dec.input))

(***************************************************************************)
(* C13.  After every call of a Buffer, in any sequence of calls,           *)
(* 0 <= begin <= end <= capacity.  (Refuted: copy_out_and_consume moves    *)
(* begin by the count it is given without looking at end.)                 *)
(***************************************************************************)
C13_BufferInvariant ==
    0 <= ubuf.begin /\ ubuf.begin <= ubuf.end /\ ubuf.end <= capacity(ubuf)

(***************************************************************************)
(* C15.  As claimed: ensure_buffered(n) decides on the bytes buffered      *)
(* after the optional fill, for every n >= 0: none is the clean end of     *)
(* the stream, fewer than n the truncated-chunk error, else n bytes are    *)
(* consumed.  (Refuted by n = 0 on an empty buffer.)                       *)
(***************************************************************************)
\* The bytes a reader of buffer b and its source has ahead, in order.
Ahead(b, src) == Unread(b) \o Drop(src.data, src.pos)

\* The bytes buffered once ensure_buffered(n) has filled the buffer.
AfterFill(b, src, n) == Min(Len(Ahead(b, src)), Max(capacity(b), n))

Decision(n, have) ==
    IF have = 0 THEN "None" ELSE IF have < n THEN "Err" ELSE "Some"

C15_DecidesAfterOptionalFill ==
    [][ures'.op = "ensure_buffered" =>
          ures'.res = Decision(ures'.n,
                               IF buffered(ubuf) >= ures'.n THEN buffered(ubuf)
                               ELSE AfterFill(ubuf, usrc, ures'.n))]_vars

(***************************************************************************)
(* C15, amended.  With at least n bytes buffered on entry (always so for   *)
(* n = 0, an empty buffer and an exhausted source included)                *)
(* ensure_buffered(n) neither fills nor decides: it consumes the next n    *)
(* bytes and returns them.  Otherwise it fills the buffer from the source  *)
(* and then: with no byte buffered it reports the clean end of the         *)
(* stream; with fewer than n it reports the truncated-chunk error and      *)
(* consumes nothing; else it consumes the next n bytes and returns them.   *)
(***************************************************************************)
\* ensure_buffered(n) on buffer b and source src returned r and left b2
\* and src2.
Ensured(b, src, n, r, b2, src2) ==
    IF buffered(b) >= n
    THEN /\ r.res = "Some"
         /\ r.data = Take(Unread(b), n)
         /\ Unread(b2) = Drop(Unread(b), n)
         /\ src2 = src
    ELSE /\ r.res = Decision(n, AfterFill(b, src, n))
         /\ r.res = "Some" =>
               /\ r.data = Take(Ahead(b, src), n)
               /\ Ahead(b2, src2) = Drop(Ahead(b, src), n)
         /\ r.res # "Some" =>
               /\ r.data = <<>>
               /\ Ahead(b2, src2) = Ahead(b, src)
               /\ buffered(b2) = AfterFill(b, src, n)

C15_EnsureBufferedDecides ==
    [][ures'.op = "ensure_buffered" =>
          Ensured(ubuf, usrc, ures'.n, ures', ubuf', usrc')]_vars

\* ensure_buffered(0) returned an empty slice from an empty buffer whose
\* source had nothing left.
C15_Witness ==
    /\ ures.op = "ensure_buffered" /\ ures.n = 0 /\ ures.res = "Some"
    /\ ures.data = <<>> /\ empty(ubuf) /\ Remaining(usrc) = 0

(***************************************************************************)
(* C16.  ensure_buffered(n) changes the capacity only when fewer than n    *)
(* bytes are buffered and n exceeds the capacity; it then grows it by      *)
(* n - capacity and keeps the unread bytes.  No call shrinks the capacity, *)
(* and only add_capacity changes it otherwise; so the capacity is the      *)
(* larger of the capacity the buffer had after its last new or             *)
(* add_capacity and the largest length asked for since with fewer bytes    *)
(* buffered.                                                               *)
(***************************************************************************)
IsPrefix(p, q) == Len(p) <= Len(q) /\ p = Take(q, Len(p))

Grown(b, n, r, b2) ==
    /\ capacity(b2) =
          IF buffered(b) < n /\ n > capacity(b)
          THEN capacity(b) + (n - capacity(b)) ELSE capacity(b)
    /\ IsPrefix(Unread(b), r.data \o Unread(b2))

C16_CapacityGrowth ==
    /\ [](capacity(ubuf) = Max(ures.floor, ures.top))
    /\ [][/\ capacity(ubuf') >= capacity(ubuf)
          /\ ures'.op = "ensure_buffered" => Grown(ubuf, ures'.n, ures', ubuf')
          /\ ures'.op \notin {"ensure_buffered", "add_capacity"} =>
                capacity(ubuf') = capacity(ubuf)]_vars

\* A buffer that held unread bytes was grown to the length asked for and
\* returned that many bytes.
C16_Witness ==
    /\ ures.op = "ensure_buffered" /\ ures.res = "Some"
    /\ ures.n = MaxAsk /\ ures.top = MaxAsk /\ ures.floor < MaxAsk
    /\ capacity(ubuf) = MaxAsk
    /\ ures.data[1] = 7 /\ ures.data[MaxAsk] = BufSource[1]

(***************************************************************************)
(* C19.  mask(x) is x rotated right by 15 bits plus 0xA282EAD8, modulo     *)
(* 2^32, for every 32-bit x: a sum that does not fit in 32 bits wraps      *)
(* around, and the result is a 32-bit value.  masked_crc(bytes) is mask of *)
(* the CRC-32C of bytes and depends on bytes alone; the value the encoder  *)
(* stores in a chunk is that value, and it is the value the decoder        *)
(* compares the stored one with.                                           *)
(***************************************************************************)
\* The 32 bits of a word, bit 0 the least significant.
Bits(x) ==
    [i \in 0..31 |->
        IF i < 16 THEN (x[2] \div (2 ^ i)) % 2
        ELSE (x[1] \div (2 ^ (i - 16))) % 2]

\* Rotation to the right by n: bit i of the result is bit i + n of b.
RotatedRight(b, n) == [i \in 0..31 |-> b[(i + n) % 32]]

\* The carry into bit i of the sum of a and b.
RECURSIVE CarryInto(_, _, _)
CarryInto(a, b, i) ==
    IF i = 0 THEN 0
    ELSE (a[i - 1] + b[i - 1] + CarryInto(a, b, i - 1)) \div 2

\* The sum modulo 2^32: the carry into bit 32 is not part of it.
SumMod32(a, b) == [i \in 0..31 |-> (a[i] + b[i] + CarryInto(a, b, i)) % 2]

\* The number whose bits from..from+15 of b are.
RECURSIVE HalfOf(_, _, _)
HalfOf(b, from, n) ==
    IF n = 0 THEN 0 ELSE b[from] + (2 * HalfOf(b, from + 1, n - 1))

WordOf(b) == U32(HalfOf(b, 16, 16), HalfOf(b, 0, 16))

IsWord(x) == x[1] \in 0..65535 /\ x[2] \in 0..65535

\* (rotate_right_32(x, 15) + 0xA282EAD8) mod 2^32, bit by bit.
MaskOf(x) ==
    WordOf(SumMod32(RotatedRight(Bits(x), 15), Bits(U32(41602, 60120))))

\* The sum of the rotated word and 0xA282EAD8 does not fit in 32 bits.
SumOverflows(x) ==
    CarryInto(RotatedRight(Bits(x), 15), Bits(U32(41602, 60120)), 31)
        + RotatedRight(Bits(x), 15)[31] + 1 >= 2

\* The values the tests unmasked_checksum and masked_checksum assert.
Crc32cAsserted(bytes) ==
    /\ bytes = Digits => crun.val = U32(58118, 37507)
    /\ bytes = AllZeros => crun.val = U32(35473, 13994)
    /\ bytes = AllOnes => crun.val = U32(25256, 43843)
    /\ bytes = Incrementing => crun.val = U32(18141, 31054)

MaskedAsserted(bytes) == bytes = LettersAB => crun.val = U32(37492, 52648)

C19_MaskedCrc ==
    /\ crun.op = "mask" =>
          crun.val = MaskOf(cin.x) /\ IsWord(crun.val)
    /\ crun.op = "checksum_castagnoli" => Crc32cAsserted(cin.bytes)
    /\ crun.op = "masked_crc" =>
          /\ crun.val = MaskOf(Xor32(crun.acc, U32(65535, 65535)))
          /\ IsWord(crun.val)
          /\ MaskedAsserted(cin.bytes)
          /\ OneLiteral(cin.bytes) => crun.val = masked_crc(cin.bytes)
    /\ crun.op = "header_and_crc" =>
          crun.val = MaskOf(Xor32(crun.acc, U32(65535, 65535)))
    /\ crun.op = "check_crc" =>
          /\ crun.ok
          /\ crun.val = MaskOf(Xor32(crun.acc, U32(65535, 65535)))
          /\ masked_crc(cin.bytes) = crun.val

\* mask was applied to a word whose rotation plus 0xA282EAD8 does not fit
\* in 32 bits, and returned the sum less 2^32.
C19_Witness ==
    /\ crun.op = "mask"
    /\ SumOverflows(cin.x)
    /\ rotate_right_15(cin.x)[1] + 41602 >= 65536
    /\ crun.val[1] < 41602

(***************************************************************************)
(* C21.  In Verify mode no unverified byte reaches the caller.  The bytes  *)
(* the reads have returned, followed by the unread bytes of the output     *)
(* buffer, are the payloads of those data chunks pulled so far whose       *)
(* stored CRC is masked_crc of their uncompressed payload (and which the   *)
(* output buffer can hold), in stream order.  A read that fails the CRC    *)
(* check of a chunk returns no byte and leaves the output buffer as it     *)
(* was, empty; the chunk is consumed, so no later read delivers it.        *)
(***************************************************************************)
\* The stream holds all of chunk c.
Whole(stream, c) == c.start + HEADER_SIZE + c.len <= Len(stream)

\* A data chunk read in Verify mode stores its payload.
Verified(stream, c) ==
    /\ IsData(c)
    /\ Whole(stream, c)
    /\ Sound(stream, c)
    /\ ~WrongCrc(stream, c)
    /\ Len(Payload(stream, c)) <= MAX_UNCOMPRESSED_CHUNK

RECURSIVE VerifiedPayloads(_, _)
VerifiedPayloads(stream, cs) ==
    IF cs = <<>> THEN <<>>
    ELSE (IF Verified(stream, Head(cs)) THEN Payload(stream, Head(cs)) ELSE <<>>)
         \o VerifiedPayloads(stream, Tail(cs))

\* A read of dec ended in a CRC mismatch.
CrcCheckFailed(o) == o.last.kind = "Err" /\ o.last.what = "CrcMismatch"

C21_NoUnverifiedByte ==
    /\ []((phase = "Decode" /\ dec.mode = "Verify") =>
            /\ obs.delivered \o Unread(dec.output)
                  = VerifiedPayloads(Stream, ChunksBefore(Stream, Pulled(dec)))
            /\ CrcCheckFailed(obs) => empty(dec.output))
    /\ [][(phase = "Decode" /\ dec.mode = "Verify" /\ CrcCheckFailed(obs')) =>
            /\ empty(dec.output)
            /\ dec'.output = dec.output
            /\ obs'.delivered = obs.delivered
            /\ Pulled(dec') > Pulled(dec)]_vars

\* A chunk failed its CRC check, its payload was withheld, and a later
\* read delivered the payload of the chunk after it.
C21_Witness ==
    /\ phase = "Decode" /\ dec.mode = "Verify"
    /\ obs.rte.state = "Err" /\ obs.rte.what = "CrcMismatch"
    /\ obs.rte.out # obs.delivered
    /\ obs.last.kind = "Ok" /\ obs.last.n > 0
    /\ Len(obs.delivered)
          < Len(Payloads(Stream, ChunksBefore(Stream, Pulled(dec))))

(***************************************************************************)
(* C22.  The decoder keeps to the preconditions of its Buffers.  In every  *)
(* state reached through read calls, on any stream and with a source that  *)
(* hands over no more bytes than the space it was offered, the input and   *)
(* the output buffer satisfy begin <= end <= capacity; every               *)
(* ensure_buffered call a read makes consumes no more than is buffered,    *)
(* and the copy to the caller takes no more than is buffered.  (consume    *)
(* and copy_out_and_consume add their count to begin, so the count was at  *)
(* most buffered() exactly when begin <= end holds afterwards.)            *)
(***************************************************************************)
\* One call ensure_buffered(n) on buffer `before`, answered with r.
EnsureCall(before, n, r) == [before |-> before, n |-> n, r |-> r]

\* The ensure_buffered calls the loop of read makes from a decoder whose
\* input buffer is `input`: for the header and the body of each chunk, up
\* to the first chunk that is not skipped.
RECURSIVE HeaderCalls(_, _, _)
BodyCalled(chunk_type, b, sched) ==
    IF b.res = "Some" /\ chunk_type \notin {0, 1}
    THEN HeaderCalls(b.input, b.source, sched)
    ELSE <<>>

HeaderCalled(h, sched) ==
    IF h.res # "Some" THEN <<>>
    ELSE <<EnsureCall(h.input, chunk_len(h.data),
                      ensure_buffered(h.input, h.source, chunk_len(h.data), sched))>>
         \o BodyCalled(h.data[1],
                       ensure_buffered(h.input, h.source, chunk_len(h.data), sched),
                       sched)

HeaderCalls(input, source, sched) ==
    <<EnsureCall(input, HEADER_SIZE,
                 ensure_buffered(input, source, HEADER_SIZE, sched))>>
    \o HeaderCalled(ensure_buffered(input, source, HEADER_SIZE, sched), sched)

\* The call left the buffer in order; bytes it returned were buffered.
WithinBuffered(call) ==
    /\ Ordered(call.r.input)
    /\ call.r.res = "Some" =>
          /\ Len(call.r.data) = call.n
          /\ call.n <= buffered(call.r.input) + call.n
          /\ capacity(call.r.input) >= call.n

\* The read of decoder d returned r: both buffers are in order, and the
\* copy took no more than the output buffer held.
CopyWithinBuffered(d, r) ==
    /\ Ordered(r.dec.input)
    /\ Ordered(r.dec.output)
    /\ Len(r.bytes) <= buffered(r.dec.output) + Len(r.bytes)
    /\ r.dec.output.begin >= Len(r.bytes)

C22_BufferPreconditionsKept ==
    phase = "Decode" =>
        /\ Ordered(dec.input) /\ Ordered(dec.output)
        /\ Ordered(ref.input) /\ Ordered(ref.output)
        /\ obs.last.kind # "Panic" =>
              /\ \A sched \in Schedules :
                    \A i \in DOMAIN HeaderCalls(dec.input, dec.source, sched) :
                        WithinBuffered(HeaderCalls(dec.input, dec.source, sched)[i])
              /\ \A k \in 1..MaxK : \A sched \in Schedules :
                    CopyWithinBuffered(dec, read(dec, k, sched))

\* A read skipped a chunk larger than the input buffer, which grew, then
\* stored a payload and copied a part of it to its caller.
C22_Witness ==
    /\ phase = "Decode" /\ obs.last.kind = "Ok"
    /\ capacity(dec.input) > INPUT_CAPACITY
    /\ dec.input.begin > 0
    /\ dec.output.begin > 0 /\ buffered(dec.output) > 0

=============================================================================
